---------------------------- MODULE Spec2Model ----------------------------
(***************************************************************************)
(* Model of xrp_blacklist_tracker.py: the memo scanner, the journal file   *)
(* blacklisted_addresses.json, the Discord digest and the poll loop.       *)
(*                                                                         *)
(* Strings are sequences of code points.  Times are whole seconds since    *)
(* the Unix epoch; the wall clock is the variable now.                     *)
(***************************************************************************)
EXTENDS Integers, Sequences, FiniteSets, TLC

\* Python's None where a string is expected, and where a time is expected.
NoText == <<-1>>
NoTime == -1
\* The call raised instead of returning a time.
TimeError == -2

Range(s) == {s[i] : i \in DOMAIN s}

-----------------------------------------------------------------------------
(* Text: characters and their code points.                                 *)

AsciiTable ==
    << <<" ", 32>>, <<"#", 35>>, <<"+", 43>>, <<"-", 45>>, <<".", 46>>,
       <<"0", 48>>, <<"1", 49>>, <<"2", 50>>, <<"3", 51>>, <<"4", 52>>,
       <<"5", 53>>, <<"6", 54>>, <<"7", 55>>, <<"8", 56>>, <<"9", 57>>,
       <<":", 58>>,
       <<"A", 65>>, <<"B", 66>>, <<"C", 67>>, <<"D", 68>>, <<"E", 69>>,
       <<"F", 70>>, <<"G", 71>>, <<"I", 73>>, <<"K", 75>>, <<"L", 76>>,
       <<"S", 83>>, <<"T", 84>>, <<"U", 85>>, <<"X", 88>>, <<"Z", 90>>,
       <<"a", 97>>, <<"b", 98>>, <<"c", 99>>, <<"d", 100>>, <<"e", 101>>,
       <<"f", 102>>, <<"g", 103>>, <<"h", 104>>, <<"i", 105>>, <<"k", 107>>,
       <<"l", 108>>, <<"n", 110>>, <<"o", 111>>, <<"r", 114>>, <<"s", 115>>,
       <<"t", 116>>, <<"w", 119>>, <<"x", 120>> >>

Ord(c) == (CHOOSE p \in Range(AsciiTable) : p[1] = c)[2]

\* The string whose characters are cs, as its code points.
Str(cs) == [i \in DOMAIN cs |-> Ord(cs[i])]

\* Python's `pat in text` for strings.
Contains(text, pat) ==
    \E i \in 0..(Len(text) - Len(pat)) :
        \A j \in 1..Len(pat) : text[i + j] = pat[j]

\* Python's `a < b` for strings: lexicographic by code point.
RECURSIVE StrLess(_, _)
StrLess(a, b) ==
    IF b = <<>> THEN FALSE
    ELSE IF a = <<>> THEN TRUE
    ELSE IF Head(a) # Head(b) THEN Head(a) < Head(b)
    ELSE StrLess(Tail(a), Tail(b))

-----------------------------------------------------------------------------
(* hex_to_str: bytes.fromhex(s).decode("utf-8").                           *)

HexDigits == Str(<<"0","1","2","3","4","5","6","7","8","9",
                   "A","B","C","D","E","F">>)
HexLower  == Str(<<"a","b","c","d","e","f">>)

\* Value of a hex digit, -1 for any other character.
HexVal(c) ==
    IF \E i \in DOMAIN HexDigits : HexDigits[i] = c
    THEN (CHOOSE i \in DOMAIN HexDigits : HexDigits[i] = c) - 1
    ELSE IF \E i \in DOMAIN HexLower : HexLower[i] = c
    THEN (CHOOSE i \in DOMAIN HexLower : HexLower[i] = c) + 9
    ELSE -1

\* bytes.fromhex: NoText on an odd number of digits or a non-hex character.
BytesFromHex(h) ==
    IF Len(h) % 2 # 0 \/ \E i \in DOMAIN h : HexVal(h[i]) < 0
    THEN NoText
    ELSE [i \in 1..(Len(h) \div 2) |-> 16 * HexVal(h[2*i - 1]) + HexVal(h[2*i])]

IsCont(b) == b >= 128 /\ b <= 191

\* bytes.decode("utf-8") for one- and two-byte sequences; NoText when the
\* bytes are not valid UTF-8.  Lead bytes of three- and four-byte
\* sequences (0xE0..0xF4) are outside the inputs used here.
RECURSIVE Utf8Decode(_)
Utf8Decode(bs) ==
    IF bs = <<>> THEN <<>>
    ELSE IF Head(bs) < 128
         THEN LET rest == Utf8Decode(Tail(bs))
              IN  IF rest = NoText THEN NoText ELSE <<Head(bs)>> \o rest
    ELSE IF Head(bs) >= 194 /\ Head(bs) <= 223 /\ Len(bs) >= 2 /\ IsCont(bs[2])
         THEN LET rest == Utf8Decode(Tail(Tail(bs)))
              IN  IF rest = NoText THEN NoText
                  ELSE <<(Head(bs) - 192) * 64 + (bs[2] - 128)>> \o rest
    ELSE NoText

hex_to_str(h) ==
    LET bs == BytesFromHex(h)
    IN  IF bs = NoText THEN NoText ELSE Utf8Decode(bs)

\* decode_memo_data: the decoded text, NoText when hex_to_str raises.
decode_memo_data(memo_data) == hex_to_str(memo_data)

KwBlacklist == Str(<<"B","l","a","c","k","l","i","s","t">>)
Kwblacklist == Str(<<"b","l","a","c","k","l","i","s","t">>)

\* Faulty variant: a case-insensitive keyword test in place of the two literals.
Lower(c) == IF c >= 65 /\ c <= 90 THEN c + 32 ELSE c
KeywordInAnyCase(decoded_memo) ==
    Contains([i \in DOMAIN decoded_memo |-> Lower(decoded_memo[i])], Kwblacklist)

\* Faulty variant: only the capitalised literal is looked for.
KeywordCapitalOnly(decoded_memo) == Contains(decoded_memo, KwBlacklist)

\* `"Blacklist" in decoded_memo or "blacklist" in decoded_memo`
KeywordIn(decoded_memo) ==
    Contains(decoded_memo, KwBlacklist) \/ Contains(decoded_memo, Kwblacklist)

\* The memo branch of process_transaction: `if decoded_memo:` and then the
\* keyword test.  TRUE when "BLACKLIST FOUND" is reached for this MemoData.
MemoMatches(memo_data) ==
    LET decoded_memo == decode_memo_data(memo_data)
    IN  /\ decoded_memo # NoText
        /\ decoded_memo # <<>>
        /\ KeywordIn(decoded_memo)

\* str_to_hex, the inverse used to build memo inputs: two upper-case hex
\* digits per one-byte character.
StrToHex(text) ==
    [i \in 1..(2 * Len(text)) |->
        LET b == text[(i + 1) \div 2]
        IN  HexDigits[(IF i % 2 = 1 THEN b \div 16 ELSE b % 16) + 1]]

-----------------------------------------------------------------------------
(* Program constants.                                                      *)

HOURS_TO_CHECK             == 24
DISCORD_UPDATE_INTERVAL    == 3600
DISCORD_RETRY_INTERVAL     == 300
DISCORD_MAX_MESSAGE_LENGTH == 1900
ErrorThreshold             == 3      \* `if consecutive_errors >= 3`
SecondsPerHour             == 3600
SecondsPerDay              == 86400
RIPPLE_EPOCH               == 946684800

Window == HOURS_TO_CHECK * SecondsPerHour

(* Bounds of the model.                                                    *)
MaxTicks        == 1    \* clock advances per run
MaxRequests     == 2    \* page requests per session
MaxPageLen      == 2    \* transactions per page
MaxDigestRecent == 52   \* journal sizes of the digest specification

\* The wall clock when the model starts.
T0 == 1700000000

-----------------------------------------------------------------------------
(* datetime.isoformat / datetime.fromisoformat.  The date is rendered as   *)
(* the zero-padded five-digit day number since the epoch: like the         *)
(* calendar date it is fixed-width and most-significant-first.             *)

Digit(d) == 48 + d

Digits2(n) == <<Digit((n \div 10) % 10), Digit(n % 10)>>

Digits5(n) == <<Digit((n \div 10000) % 10), Digit((n \div 1000) % 10),
                Digit((n \div 100) % 10)>> \o Digits2(n)

\* "DDDDDTHH:MM:SS", the part before the UTC offset.
DateTimeText(t) ==
    LET sod == t % SecondsPerDay
    IN  Digits5(t \div SecondsPerDay) \o Str(<<"T">>)
        \o Digits2(sod \div 3600) \o Str(<<":">>)
        \o Digits2((sod % 3600) \div 60) \o Str(<<":">>)
        \o Digits2(sod % 60)

UtcOffset == Str(<<"+","0","0",":","0","0">>)

\* datetime.now(timezone.utc).isoformat() at clock value t.
isoformat(t) == DateTimeText(t) \o UtcOffset

DigitVal(c) == c - 48
IsDigit(c)  == c >= 48 /\ c <= 57

\* datetime.fromisoformat: the time of an isoformat string, NoTime when the
\* string is not in the format (ValueError).
fromisoformat(s) ==
    IF /\ Len(s) = 20
       /\ \A i \in {1,2,3,4,5,7,8,10,11,13,14} : IsDigit(s[i])
       /\ s[6] = Ord("T") /\ s[9] = Ord(":") /\ s[12] = Ord(":")
       /\ SubSeq(s, 15, 20) = UtcOffset
    THEN LET n2(i) == 10 * DigitVal(s[i]) + DigitVal(s[i + 1])
             day   == 10000 * DigitVal(s[1]) + 1000 * DigitVal(s[2])
                      + 100 * DigitVal(s[3]) + n2(4)
         IN  day * SecondsPerDay + n2(7) * 3600 + n2(10) * 60 + n2(13)
    ELSE NoTime

\* ripple_time_to_datetime: seconds since the Ripple epoch to a time.
\* A negative ripple time is out of range: the function raises.
ripple_time_to_datetime(r) == IF r < 0 THEN TimeError ELSE r + RIPPLE_EPOCH

-----------------------------------------------------------------------------
VARIABLES
    now,                  \* the wall clock (datetime.now, time.time)
    ticks,                \* clock advances so far
    webhook,              \* DISCORD_WEBHOOK_URL is set
    inActions,            \* IN_GITHUB_ACTIONS
    file,                 \* blacklisted_addresses.json: [state, data]
    lastSave,             \* what save_blacklisted_address logged for this memo
    digest,               \* the send_discord_summary call of this round
    pc,                   \* position of the process
    start_time,           \* monitor_transactions: start of the window
    connected,            \* a client from get_working_client is held
    marker,               \* pagination marker of the next request
    continue_processing,
    consecutive_errors,
    last_discord_update,
    requests,             \* page requests made in this session
    sent,                 \* marker= of the most recent page request
    attempt,              \* the most recent send_discord_summary of the loop
    conn,                 \* the get_working_client call of this round
    pending,              \* transactions of the page the for loop has not reached
    tx_info,              \* the transaction the for loop is at
    respMarker,           \* response.result.get("marker")
    mi,                   \* position of the for loop over the memos
    inWindow,             \* hashes of the transactions processed so far whose
                          \* resolved time is not before start_time
    scanned,              \* hashes of those that reached the memo scan
    memoText,             \* memo scan alone: the text that was encoded
    memoDamage,           \* memo scan alone: what was done to the encoding
    memoData,             \* memo scan alone: the MemoData given
    scanOut               \* memo scan alone: "pending", "match", "nomatch"

vars == <<now, ticks, webhook, inActions, file, lastSave, digest, pc,
          start_time, connected, marker, continue_processing,
          consecutive_errors, last_discord_update, requests, sent, attempt,
          conn, pending, tx_info, respMarker, mi, inWindow, scanned, memoText, memoDamage, memoData,
          scanOut>>

configVars == <<webhook, inActions>>
loopVars   == <<start_time, connected, marker, continue_processing,
                consecutive_errors, last_discord_update, requests, sent,
                attempt, conn>>
pageVars   == <<pending, tx_info, respMarker, mi>>
ghostVars  == <<inWindow, scanned>>
scanVars   == <<memoText, memoDamage, memoData, scanOut>>

-----------------------------------------------------------------------------
(* The journal file.                                                       *)

MissingFile   == [state |-> "missing",   data |-> <<>>]
MalformedFile == [state |-> "malformed", data |-> <<>>]
OkFile(data)  == [state |-> "ok",        data |-> data]

\* ensure_blacklist_file: a missing file is created holding [].
ensure_blacklist_file(f) == IF f.state = "missing" THEN OkFile(<<>>) ELSE f

\* Faulty variant: the duplicate check looks at the first entry only.
DuplicateFirstOnly(data, address, tx_hash) ==
    /\ data # <<>>
    /\ data[1].blacklisted_address = address
    /\ data[1].transaction_hash = tx_hash

\* Faulty variant: no duplicate check.
NeverDuplicate(data, address, tx_hash) == FALSE

\* The duplicate check of save_blacklisted_address.
IsDuplicate(data, address, tx_hash) ==
    \E i \in DOMAIN data :
        /\ data[i].blacklisted_address = address
        /\ data[i].transaction_hash = tx_hash

\* Put e into a list sorted newest first, behind the entries whose
\* timestamp string is greater or equal (list.sort is stable).
RECURSIVE InsertNewestFirst(_, _)
InsertNewestFirst(sorted, e) ==
    IF sorted = <<>> THEN <<e>>
    ELSE IF StrLess(Head(sorted).timestamp, e.timestamp)
         THEN <<e>> \o sorted
         ELSE <<Head(sorted)>> \o InsertNewestFirst(Tail(sorted), e)

\* Faulty variant: the sort without reverse=True (oldest first).
RECURSIVE InsertOldestFirst(_, _)
InsertOldestFirst(sorted, e) ==
    IF sorted = <<>> THEN <<e>>
    ELSE IF StrLess(e.timestamp, Head(sorted).timestamp)
         THEN <<e>> \o sorted
         ELSE <<Head(sorted)>> \o InsertOldestFirst(Tail(sorted), e)
RECURSIVE SortOldestFirst(_)
SortOldestFirst(data) ==
    IF data = <<>> THEN <<>>
    ELSE InsertOldestFirst(SortOldestFirst(SubSeq(data, 1, Len(data) - 1)),
                           data[Len(data)])

\* data.sort(key=lambda x: x.get('timestamp', ''), reverse=True)
RECURSIVE SortNewestFirst(_)
SortNewestFirst(data) ==
    IF data = <<>> THEN <<>>
    ELSE InsertNewestFirst(SortNewestFirst(SubSeq(data, 1, Len(data) - 1)),
                           data[Len(data)])

\* The list save_blacklisted_address loads: [] for a malformed file.
LoadForSave(f) == IF f.state = "malformed" THEN <<>> ELSE f.data

\* save_blacklisted_address(address, memo, tx_hash).  Writing the file
\* back can fail (the except clause logs it): the file is then as it was
\* or left truncated.
save_blacklisted_address(address, memo, tx_hash) ==
    LET entry == [blacklisted_address |-> address,
                  memo                |-> memo,
                  transaction_hash    |-> tx_hash,
                  timestamp           |-> isoformat(now)]
        f    == ensure_blacklist_file(file)
        data == LoadForSave(f)
    IN  IF IsDuplicate(data, address, tx_hash)
        THEN /\ file' = f
             /\ lastSave' = "duplicate"
        ELSE \/ /\ file' = OkFile(SortNewestFirst(Append(data, entry)))
                /\ lastSave' = "saved"
             \/ /\ file' \in {f, MalformedFile}
                /\ lastSave' = "error"

-----------------------------------------------------------------------------
(* send_discord_summary.                                                   *)

\* len() of the literal parts of the messages.
SummaryHeaderLen == 26    \* "**XRP Blacklist Update**\n\n"
RecentHeaderLen  == 45    \* the "Addresses Blacklisted (Last 24 Hours)" line
TotalFooterLen   == 43    \* the "Total Unique Addresses Blacklisted" line
EmptySummaryLen  == 86    \* the "No new blacklisted addresses" message
AddressLineExtra == 3     \* the two backquotes and the newline of a line

PostStatuses == {"204", "400", "exception"}

\* Faulty variant: the comparison with period_start is strict.
RecentStrict(data, t) ==
    SelectSeq(data, LAMBDA e : fromisoformat(e.timestamp) > t - Window)

\* The entries send_discord_summary keeps: `timestamp >= period_start`.
RecentAddresses(data, t) ==
    SelectSeq(data, LAMBDA e : fromisoformat(e.timestamp) >= t - Window)

RECURSIVE SumLineLen(_)
SumLineLen(entries) ==
    IF entries = <<>> THEN 0
    ELSE Len(Head(entries).blacklisted_address) + AddressLineExtra
         + SumLineLen(Tail(entries))

\* len(str(n)) for n >= 0.
RECURSIVE DecimalLen(_)
DecimalLen(n) == IF n < 10 THEN 1 ELSE 1 + DecimalLen(n \div 10)

\* The one message send_discord_summary composes for a non-empty list.
SummaryMessage(recent, all) ==
    LET unique_addresses == {all[i].blacklisted_address : i \in DOMAIN all}
    IN  [kind      |-> "summary",
         addresses |-> [i \in DOMAIN recent |-> recent[i].blacklisted_address],
         unique    |-> Cardinality(unique_addresses),
         length    |-> SummaryHeaderLen + RecentHeaderLen + SumLineLen(recent)
                       + TotalFooterLen
                       + DecimalLen(Cardinality(unique_addresses))]

EmptyMessage ==
    [kind |-> "empty", addresses |-> <<>>, unique |-> 0, length |-> EmptySummaryLen]

\* Faulty variant: any answer of the webhook counts as delivered.
DeliveredAnyAnswer(status) == status # "exception"

\* `if response.status_code == 204`
Delivered(status) == status = "204"

\* No call of send_discord_summary in this round.
NoDigest ==
    [called |-> FALSE, loaded |-> FALSE, recent |-> <<>>, posts |-> <<>>,
     status |-> <<>>, ok |-> FALSE]

\* A call that returned False before it had the list of recent entries.
FailedDigest == [NoDigest EXCEPT !.called = TRUE]

\* send_discord_summary() returning r.
send_discord_summary(r) ==
    IF ~webhook
    THEN /\ r = FALSE
         /\ digest' = FailedDigest
         /\ UNCHANGED file
    ELSE LET f == ensure_blacklist_file(file)
         IN  /\ file' = f
             /\ IF \/ f.state = "malformed"
                   \/ \E i \in DOMAIN f.data :
                          fromisoformat(f.data[i].timestamp) = NoTime
                THEN /\ r = FALSE
                     /\ digest' = FailedDigest
                ELSE LET recent == RecentAddresses(f.data, now)
                     IN  IF recent = <<>>
                         THEN IF inActions
                              THEN \E status \in PostStatuses :
                                     /\ r = Delivered(status)
                                     /\ digest' = [called |-> TRUE,
                                                   loaded |-> TRUE,
                                                   recent |-> recent,
                                                   posts  |-> <<EmptyMessage>>,
                                                   status |-> <<status>>,
                                                   ok     |-> r]
                              ELSE /\ r = TRUE
                                   /\ digest' = [called |-> TRUE,
                                                 loaded |-> TRUE,
                                                 recent |-> recent,
                                                 posts  |-> <<>>,
                                                 status |-> <<>>,
                                                 ok     |-> TRUE]
                         ELSE \E status \in PostStatuses :
                                /\ r = Delivered(status)
                                /\ digest' = [called |-> TRUE,
                                              loaded |-> TRUE,
                                              recent |-> recent,
                                              posts  |-> <<SummaryMessage(recent, f.data)>>,
                                              status |-> <<status>>,
                                              ok     |-> r]

-----------------------------------------------------------------------------
(* Transactions the ledger API may return.                                 *)

\* A 34-character account address.
MkAddr(i) == Str(<<"r">>) \o [k \in 1..31 |-> Ord("X")] \o Digits2(i)

NoField == NoText

TextTask         == Str(<<"T","a","s","k"," ","I","D",":"," ",
                          "B","l","a","c","k","l","i","s","t"," ","#","4","2">>)
TextBlacklisting == Str(<<"b","l","a","c","k","l","i","s","t","i","n","g">>)
TextUpper        == Str(<<"B","L","A","C","K","L","I","S","T">>)

Memo(text) == [MemoData |-> StrToHex(text)]
BadHexMemo == [MemoData |-> Str(<<"4","G">>)]

\* close_time_iso of the API: "...Z".
CloseTimeIso(t) == DateTimeText(t) \o Str(<<"Z">>)

TxRecent ==
    [hash |-> "h1", body |-> TRUE, close_time_iso |-> CloseTimeIso(T0),
     date |-> NoTime, TransactionIndex |-> NoTime,
     Destination |-> MkAddr(1), Memos |-> <<Memo(TextTask), Memo(TextBlacklisting)>>]
TxTwoHours ==
    [hash |-> "h2", body |-> TRUE, close_time_iso |-> Str(<<"X","X">>),
     date |-> T0 - 7200 - RIPPLE_EPOCH, TransactionIndex |-> NoTime,
     Destination |-> MkAddr(2),
     Memos |-> <<BadHexMemo, Memo(TextUpper), Memo(TextBlacklisting)>>]
TxNoDestination ==
    [hash |-> "h3", body |-> TRUE, close_time_iso |-> CloseTimeIso(T0),
     date |-> NoTime, TransactionIndex |-> NoTime,
     Destination |-> NoField, Memos |-> <<Memo(TextTask)>>]
TxThirtyHours ==
    [hash |-> "h4", body |-> TRUE, close_time_iso |-> CloseTimeIso(T0 - 108000),
     date |-> NoTime, TransactionIndex |-> NoTime,
     Destination |-> MkAddr(1), Memos |-> <<Memo(TextTask)>>]
TxNoDate ==
    [hash |-> "h5", body |-> TRUE, close_time_iso |-> NoField,
     date |-> NoTime, TransactionIndex |-> NoTime,
     Destination |-> MkAddr(2), Memos |-> <<Memo(TextTask)>>]
TxIndexOnly ==
    [hash |-> "h7", body |-> TRUE, close_time_iso |-> NoField,
     date |-> NoTime, TransactionIndex |-> 5,
     Destination |-> MkAddr(2), Memos |-> <<Memo(TextTask)>>]
TxWindowStart ==
    [hash |-> "h6", body |-> TRUE, close_time_iso |-> CloseTimeIso(T0 - Window),
     date |-> NoTime, TransactionIndex |-> NoTime,
     Destination |-> MkAddr(1), Memos |-> <<Memo(TextBlacklisting)>>]

\* A date out of the range ripple_time_to_datetime accepts.
TxBadDate ==
    [hash |-> "h8", body |-> TRUE, close_time_iso |-> NoField,
     date |-> -5, TransactionIndex |-> NoTime,
     Destination |-> MkAddr(2), Memos |-> <<Memo(TextTask)>>]

TxPool == {TxRecent, TxTwoHours, TxNoDestination, TxThirtyHours, TxNoDate,
           TxIndexOnly, TxWindowStart, TxBadDate}

\* Before the for loop has fetched a transaction.
NoTx ==
    [hash |-> "", body |-> FALSE, close_time_iso |-> NoField,
     date |-> NoTime, TransactionIndex |-> NoTime,
     Destination |-> NoField, Memos |-> <<>>]

NoMarker == ""
Markers  == {NoMarker, "m1"}

\* No send_discord_summary by the while loop yet.
NoAttempt == [t |-> NoTime, ok |-> FALSE]

-----------------------------------------------------------------------------
(* get_working_client.                                                     *)

XRPL_NODES == <<"s1.ripple.com", "s2.ripple.com", "xrplcluster.com">>

\* What the test request to a node does: a successful response, an
\* unsuccessful response, or an exception.
ProbeOutcomes == {"ok", "unsuccessful", "raises"}
NodeOutcomes  == [DOMAIN XRPL_NODES -> ProbeOutcomes]

\* No call of get_working_client in this round.
NoConn == [outcomes |-> <<>>, probed |-> 0, client |-> 0]

\* Faulty variant: every node is probed and the last working one is kept.
KeepProbing(outcomes) ==
    LET working == {i \in DOMAIN outcomes : outcomes[i] = "ok"}
    IN  [outcomes |-> outcomes,
         probed   |-> Len(outcomes),
         client   |-> IF working = {} THEN 0
                      ELSE CHOOSE i \in working : \A j \in working : j <= i]

\* `for node_url in XRPL_NODES` from node i on: client is the index of the
\* node returned, 0 when the function raises; probed counts the nodes tried.
RECURSIVE ProbeFrom(_, _)
ProbeFrom(outcomes, i) ==
    IF i > Len(outcomes)
    THEN [outcomes |-> outcomes, probed |-> Len(outcomes), client |-> 0]
    ELSE IF outcomes[i] = "ok"
         THEN [outcomes |-> outcomes, probed |-> i, client |-> i]
         ELSE ProbeFrom(outcomes, i + 1)

get_working_client(outcomes) == ProbeFrom(outcomes, 1)

-----------------------------------------------------------------------------
(* get_transaction_date.                                                   *)

\* s.replace("Z", "+00:00")
RECURSIVE ReplaceZ(_)
ReplaceZ(s) ==
    IF s = <<>> THEN <<>>
    ELSE (IF Head(s) = Ord("Z") THEN UtcOffset ELSE <<Head(s)>>)
         \o ReplaceZ(Tail(s))

get_transaction_date(info) ==
    LET iso == IF info.close_time_iso # NoField
               THEN fromisoformat(ReplaceZ(info.close_time_iso))
               ELSE NoTime
    IN  IF iso # NoTime THEN iso
        ELSE IF info.body /\ info.date # NoTime
             THEN ripple_time_to_datetime(info.date)
        ELSE IF info.TransactionIndex # NoTime
             THEN ripple_time_to_datetime(info.TransactionIndex)
        ELSE NoTime

-----------------------------------------------------------------------------
(* The process: __main__, monitor_transactions, process_transaction.       *)

\* The variables of monitor_transactions before it is entered.
NotMonitoring ==
    /\ start_time = 0
    /\ connected = FALSE
    /\ marker = NoMarker
    /\ continue_processing = TRUE
    /\ consecutive_errors = 0
    /\ last_discord_update = 0
    /\ requests = 0
    /\ sent = NoMarker
    /\ attempt = NoAttempt
    /\ conn = NoConn
    /\ pending = 0
    /\ tx_info = NoTx
    /\ respMarker = NoMarker
    /\ mi = 0
    /\ inWindow = {}
    /\ scanned = {}

NotScanning ==
    /\ memoText = <<>>
    /\ memoDamage = "none"
    /\ memoData = <<>>
    /\ scanOut = "idle"

Init ==
    /\ now = T0
    /\ ticks = 0
    /\ webhook \in BOOLEAN
    /\ inActions \in BOOLEAN
    /\ file = MissingFile
    /\ lastSave = "none"
    /\ digest = NoDigest
    \* Module level: without a webhook the one-shot mode exits at once.
    /\ pc = IF inActions /\ ~webhook THEN "exit1" ELSE "main"
    /\ NotMonitoring
    /\ NotScanning

\* Time passes: between two rounds of the while loop, and while the page
\* request is under way.
TickSteps == {DISCORD_RETRY_INTERVAL, DISCORD_UPDATE_INTERVAL, Window,
              Window + DISCORD_RETRY_INTERVAL}

Tick ==
    /\ ticks < MaxTicks
    /\ pc \in {"loop", "request"}
    /\ \E d \in TickSteps : now' = now + d
    /\ ticks' = ticks + 1
    /\ UNCHANGED <<configVars, file, lastSave, digest, pc, loopVars, pageVars,
                   ghostVars, scanVars>>

\* __main__: the one-shot mode sends the summary and exits; otherwise the
\* initial summary is sent and monitor_transactions is entered.
MainSummary ==
    /\ pc = "main"
    /\ \E r \in BOOLEAN :
         /\ send_discord_summary(r)
         /\ pc' = IF inActions THEN (IF r THEN "exit0" ELSE "exit1")
                  ELSE "monitor"
    /\ UNCHANGED <<now, ticks, configVars, lastSave, loopVars, pageVars,
                   ghostVars, scanVars>>

\* monitor_transactions up to the while loop.
StartMonitor ==
    /\ pc = "monitor"
    /\ start_time' = now - Window
    /\ \E outcomes \in NodeOutcomes :
         /\ conn' = get_working_client(outcomes)
         /\ connected' = (conn'.client # 0)
         /\ pc' = IF conn'.client # 0 THEN "loop" ELSE "fatal"
    /\ marker' = NoMarker
    /\ continue_processing' = TRUE
    /\ consecutive_errors' = 0
    /\ last_discord_update' = 0
    /\ UNCHANGED <<now, ticks, configVars, file, lastSave, digest, requests,
                   sent, attempt, pageVars, ghostVars, scanVars>>

\* Faulty variant: a failed send waits the full interval like a sent one.
RetryFromNow(current_time) == current_time

\* `last_discord_update = current_time - (DISCORD_UPDATE_INTERVAL -
\* DISCORD_RETRY_INTERVAL)`: a failed send is tried again in five minutes.
RetryFrom(current_time) ==
    current_time - (DISCORD_UPDATE_INTERVAL - DISCORD_RETRY_INTERVAL)

\* Top of the while loop: the Discord update check.
LoopTop ==
    /\ pc = "loop"
    /\ IF now - last_discord_update >= DISCORD_UPDATE_INTERVAL
       THEN \E r \in BOOLEAN :
              /\ send_discord_summary(r)
              /\ attempt' = [t |-> now, ok |-> r]
              /\ last_discord_update' = IF r THEN now ELSE RetryFrom(now)
       ELSE UNCHANGED <<file, digest, attempt, last_discord_update>>
    /\ conn' = NoConn
    /\ pc' = "request"
    /\ UNCHANGED <<now, ticks, configVars, lastSave, start_time, connected, marker,
                   continue_processing, consecutive_errors, requests, sent,
                   pageVars, ghostVars, scanVars>>

\* client.request(request) with marker=marker is made.  The count of
\* requests stops at MaxRequests.
SendRequest ==
    /\ pc = "request"
    /\ requests' = IF requests < MaxRequests THEN requests + 1 ELSE requests
    /\ sent' = marker
    /\ digest' = NoDigest

\* The except clause of the while loop: count the error, reconnect at
\* three in a row, stop when no node answers.
ExceptClause ==
    IF consecutive_errors + 1 >= ErrorThreshold
    THEN \E outcomes \in NodeOutcomes :
           /\ conn' = get_working_client(outcomes)
           /\ IF conn'.client # 0
              THEN /\ pc' = "loop"
                   /\ consecutive_errors' = 0
              ELSE /\ pc' = "halted"
                   /\ consecutive_errors' = consecutive_errors + 1
           /\ UNCHANGED connected
    ELSE /\ pc' = "loop"
         /\ consecutive_errors' = consecutive_errors + 1
         /\ UNCHANGED <<connected, conn>>

\* client.request(request) answers with a successful response.  The page
\* has pending' transactions; each is drawn from TxPool when the for loop
\* reaches it.
RequestOkStep ==
    /\ SendRequest
    /\ consecutive_errors' = 0
    /\ pending' \in 0..MaxPageLen
    /\ respMarker' \in Markers
    /\ tx_info' = NoTx
    /\ mi' = 0
    /\ pc' = "tx"
    /\ UNCHANGED <<now, ticks, configVars, file, lastSave, start_time,
                   connected, marker, continue_processing, last_discord_update,
                   attempt, conn, ghostVars, scanVars>>

RequestOk ==
    /\ requests < MaxRequests
    /\ RequestOkStep

\* client.request(request) answers with an unsuccessful response: the
\* else branch prints it and the loop goes round.
RequestUnsuccessfulStep ==
    /\ SendRequest
    /\ pc' = "loop"
    /\ UNCHANGED <<now, ticks, configVars, file, lastSave, start_time,
                   connected, marker, continue_processing, consecutive_errors,
                   last_discord_update, attempt, conn, pageVars, ghostVars,
                   scanVars>>

RequestUnsuccessful ==
    /\ requests < MaxRequests
    /\ RequestUnsuccessfulStep

\* client.request(request) raises: the except clause.
RequestRaisesStep ==
    /\ SendRequest
    /\ ExceptClause
    /\ UNCHANGED <<now, ticks, configVars, file, lastSave, start_time,
                   marker, continue_processing, last_discord_update, attempt,
                   pageVars, ghostVars, scanVars>>

RequestRaises ==
    /\ requests < MaxRequests
    /\ RequestRaisesStep

\* The destination process_transaction resolves:
\* tx.get("Destination", "Unknown").
Unknown == Str(<<"U","n","k","n","o","w","n">>)
DestinationOf(info) ==
    IF info.Destination = NoField THEN Unknown ELSE info.Destination

\* Faulty variant: no transaction is taken as older than the window.
NeverOlder(tx_time, start) == FALSE

\* Faulty variant: the cutoff test is `tx_time <= start_time`.
OlderOrEqual(tx_time, start) == tx_time <= start

\* `if tx_time < start_time`
Older(tx_time, start) == tx_time < start

\* Faulty variant: the loop goes on whether or not a marker came back.
AlwaysNextPage(continuing, next_marker) == continuing

\* `if continue_processing and response.result.get("marker")`
HasNextPage(continuing, next_marker) == continuing /\ next_marker # NoMarker

\* One round of `for tx_info in transactions`: process_transaction up to
\* the memo loop, and what follows the for loop when the page is used up.
ProcessTx ==
    /\ pc = "tx"
    /\ lastSave' = "none"
    /\ IF pending = 0
       THEN \* `if continue_processing and response.result.get("marker")`
            /\ IF HasNextPage(continue_processing, respMarker)
               THEN /\ marker' = respMarker
                    /\ pc' = "loop"
               ELSE /\ pc' = "done"
                    /\ UNCHANGED marker
            /\ UNCHANGED <<continue_processing, consecutive_errors, connected,
                           conn, pending, tx_info, mi, ghostVars>>
       ELSE \E tx \in TxPool :
              LET tx_time == IF tx.body THEN get_transaction_date(tx) ELSE NoTime
              IN  /\ tx_info' = tx
                  /\ UNCHANGED marker
                  /\ inWindow' = IF tx_time \notin {NoTime, TimeError} /\ tx_time >= start_time
                                 THEN inWindow \cup {tx.hash} ELSE inWindow
                  /\ IF tx_time = TimeError
                     THEN \* get_transaction_date raises: the except clause
                          \* of the while loop, the rest of the page is dropped
                          /\ ExceptClause
                          /\ pending' = 0
                          /\ UNCHANGED <<continue_processing, mi, scanned>>
                     ELSE /\ pending' = pending - 1
                          /\ UNCHANGED <<consecutive_errors, connected, conn>>
                          /\ IF tx_time = NoTime
                             THEN \* return True
                                  /\ pc' = "tx"
                                  /\ UNCHANGED <<continue_processing, mi, scanned>>
                             ELSE IF Older(tx_time, start_time)
                             THEN \* return False: continue_processing = False; break
                                  /\ continue_processing' = FALSE
                                  /\ pc' = "done"
                                  /\ UNCHANGED <<mi, scanned>>
                             ELSE /\ scanned' = scanned \cup {tx.hash}
                                  /\ mi' = 1
                                  /\ pc' = "memo"
                                  /\ UNCHANGED continue_processing
    /\ UNCHANGED <<now, ticks, configVars, file, digest, start_time,
                   last_discord_update, requests, sent, attempt,
                   respMarker, scanVars>>

\* Faulty variant: a match is saved whatever the destination.
AnyDestination(destination) == TRUE

\* `if destination != "Unknown"`
Resolved(destination) == destination # Unknown

\* One round of `for idx, memo_wrapper in enumerate(tx["Memos"], 1)`.
ScanMemo ==
    /\ pc = "memo"
    /\ LET destination == DestinationOf(tx_info)
       IN  IF mi > Len(tx_info.Memos)
           THEN \* return True
                /\ mi' = 0
                /\ pc' = "tx"
                /\ lastSave' = "none"
                /\ UNCHANGED file
           ELSE LET memo == tx_info.Memos[mi]
                IN  /\ mi' = mi + 1
                    /\ pc' = "memo"
                    /\ IF /\ memo.MemoData # NoField
                          /\ MemoMatches(memo.MemoData)
                          /\ Resolved(destination)
                       THEN save_blacklisted_address(
                                destination,
                                decode_memo_data(memo.MemoData),
                                tx_info.hash)
                       ELSE /\ lastSave' = "none"
                            /\ UNCHANGED file
    /\ UNCHANGED <<now, ticks, configVars, digest, loopVars, pending, tx_info,
                   respMarker, ghostVars, scanVars>>

Next ==
    \/ Tick
    \/ MainSummary
    \/ StartMonitor
    \/ LoopTop
    \/ RequestOk
    \/ RequestUnsuccessful
    \/ RequestRaises
    \/ ProcessTx
    \/ ScanMemo

Spec == Init /\ [][Next]_vars

-----------------------------------------------------------------------------
(* A session whose page requests all fail: the while loop with the two     *)
(* failing answers of client.request, however many requests it takes.  The *)
(* process runs on as long as it has a step to take.                       *)

NextRetry ==
    \/ Tick
    \/ MainSummary
    \/ StartMonitor
    \/ LoopTop
    \/ RequestUnsuccessfulStep
    \/ RequestRaisesStep

SpecRetry == Init /\ [][NextRetry]_vars /\ WF_vars(NextRetry)

-----------------------------------------------------------------------------
(* The memo scan alone: the MemoData branch of process_transaction applied *)
(* to one MemoData.                                                        *)

Prefixes == {<<>>,
             Str(<<"T","a","s","k"," ","I","D",":"," ">>),
             Str(<<"t","a","s","k"," ","i","d",":"," ">>)}
Words    == {<<>>, KwBlacklist, Kwblacklist, TextUpper,
             Str(<<"b","L","a","c","k","l","i","s","t">>),
             Str(<<"B","l","a","c","k"," ","l","i","s","t">>),
             Str(<<"b","l","a","c","k","l","i","s">>),
             Str(<<"l","a","c","k","l","i","s","t">>)}
Suffixes == {<<>>, Str(<<" ","#","4","2">>), Str(<<"i","n","g">>)}

ScanTexts == {p \o w \o x : p \in Prefixes, w \in Words, x \in Suffixes}

Damages == {"none", "lowerhex", "twobyte", "odd", "nonhex", "badutf8"}

\* Lower-case hex digits: bytes.fromhex takes them as well.
LowerHex(h) == [i \in DOMAIN h |-> IF h[i] >= 65 /\ h[i] <= 70 THEN h[i] + 32 ELSE h[i]]

\* The MemoData for a text: its hex encoding, possibly damaged.
Encoded(text, damage) ==
    LET h == StrToHex(text)
    IN  CASE damage = "none"     -> h
          [] damage = "lowerhex" -> LowerHex(h)
          [] damage = "twobyte"  -> h \o Str(<<"C","3","A","9">>)
          [] damage = "odd"      -> h \o Str(<<"4">>)
          [] damage = "nonhex"   -> Str(<<"4","G">>) \o h
          [] damage = "badutf8"  -> h \o Str(<<"F","F">>)

InitScan ==
    /\ now = T0
    /\ ticks = 0
    /\ webhook = TRUE
    /\ inActions = FALSE
    /\ file = MissingFile
    /\ lastSave = "none"
    /\ digest = NoDigest
    /\ pc = "scan"
    /\ NotMonitoring
    /\ memoText \in ScanTexts
    /\ memoDamage \in Damages
    /\ memoData = Encoded(memoText, memoDamage)
    /\ scanOut = "pending"

ScanOne ==
    /\ pc = "scan"
    /\ scanOut = "pending"
    /\ scanOut' = IF MemoMatches(memoData) THEN "match" ELSE "nomatch"
    /\ UNCHANGED <<now, ticks, configVars, file, lastSave, digest, pc, loopVars,
                   pageVars, ghostVars, memoText, memoDamage, memoData>>

NextScan == ScanOne

SpecScan == InitScan /\ [][NextScan]_vars

-----------------------------------------------------------------------------
(* The summary alone: __main__'s send_discord_summary over a journal that  *)
(* earlier sessions have filled.                                           *)

JournalEntry(i, t) ==
    [blacklisted_address |-> MkAddr(i),
     memo                |-> KwBlacklist,
     transaction_hash    |-> <<"h", i>>,
     timestamp           |-> isoformat(t)]

\* n entries written RETRY seconds ago and m entries from before the window.
FilledJournal(n, m) ==
    [i \in 1..(n + m) |->
        IF i <= n THEN JournalEntry(i, T0 - DISCORD_RETRY_INTERVAL)
        ELSE JournalEntry(i, T0 - Window - DISCORD_RETRY_INTERVAL)]

InitDigest ==
    /\ now = T0
    /\ ticks = 0
    /\ webhook = TRUE
    /\ inActions \in BOOLEAN
    /\ \E n \in 0..MaxDigestRecent, m \in 0..1 : file = OkFile(FilledJournal(n, m))
    /\ lastSave = "none"
    /\ digest = NoDigest
    /\ pc = "main"
    /\ NotMonitoring
    /\ NotScanning

NextDigest == MainSummary

SpecDigest == InitDigest /\ [][NextDigest]_vars

-----------------------------------------------------------------------------
(* Properties.                                                             *)

Journal == file.data

SameKey(e1, e2) ==
    /\ e1.blacklisted_address = e2.blacklisted_address
    /\ e1.transaction_hash = e2.transaction_hash

\* Number of entries of data with this address and transaction hash.
CountIn(data, address, tx_hash) ==
    Cardinality({i \in DOMAIN data :
                    /\ data[i].blacklisted_address = address
                    /\ data[i].transaction_hash = tx_hash})

CountFor(address, tx_hash) == CountIn(Journal, address, tx_hash)

\* The memo the memo loop is at matches.
AtMatchingMemo ==
    /\ pc = "memo"
    /\ mi <= Len(tx_info.Memos)
    /\ tx_info.Memos[mi].MemoData # NoField
    /\ KeywordIn(hex_to_str(tx_info.Memos[mi].MemoData))

\* Positions of the memos of a transaction whose text holds a keyword.
MatchingMemos(info) ==
    {k \in DOMAIN info.Memos :
        /\ info.Memos[k].MemoData # NoField
        /\ hex_to_str(info.Memos[k].MemoData) # NoText
        /\ KeywordIn(hex_to_str(info.Memos[k].MemoData))}

\* C1: no two distinct journal entries share both blacklisted_address and
\* transaction_hash.
C1_JournalUnique ==
    \A i, j \in DOMAIN Journal : i # j => ~SameKey(Journal[i], Journal[j])

\* Two entries for one address under different hashes are in the journal
\* and an append of a pair already journaled has just been refused.
C1_Witness ==
    /\ lastSave = "duplicate"
    /\ \E i, j \in DOMAIN Journal :
         /\ i # j
         /\ Journal[i].blacklisted_address = Journal[j].blacklisted_address
         /\ Journal[i].transaction_hash # Journal[j].transaction_hash

\* C2: a save_blacklisted_address call for an (address, tx_hash) pair that
\* is already in the journal leaves the file exactly as it was.
C2_AppendIdempotent ==
    [][(/\ AtMatchingMemo
        /\ Resolved(DestinationOf(tx_info))
        /\ file.state = "ok"
        /\ CountFor(DestinationOf(tx_info), tx_info.hash) > 0)
       => file' = file]_vars

\* A second matching memo, with another text, was refused as a duplicate.
C2_Witness ==
    /\ pc = "memo"
    /\ mi = 3
    /\ lastSave = "duplicate"
    /\ tx_info.Memos[1].MemoData # tx_info.Memos[2].MemoData
    /\ CountFor(DestinationOf(tx_info), tx_info.hash) = 1

\* C3: the journal is sorted descending by timestamp string: no entry's
\* timestamp is less than that of the entry after it.
C3_SortedDescending ==
    \A i \in 1..(Len(Journal) - 1) :
        ~StrLess(Journal[i].timestamp, Journal[i + 1].timestamp)

\* An entry appended later, at a later clock reading, stands first.
C3_Witness ==
    /\ lastSave = "saved"
    /\ Len(Journal) >= 2
    /\ StrLess(Journal[2].timestamp, Journal[1].timestamp)
    /\ Journal[1].timestamp = isoformat(now)

\* A step that calls send_discord_summary.
DigestCalled ==
    /\ \/ pc = "main"
       \/ pc = "loop" /\ now - last_discord_update >= DISCORD_UPDATE_INTERVAL
    /\ pc' # pc

EntryTime(e) == fromisoformat(e.timestamp)

\* recent holds the entries of data that satisfy Keep, each once, in the
\* order of data.
ExactlyThose(recent, data, Keep(_)) ==
    /\ \A j \in DOMAIN recent :
         \E i \in DOMAIN data : data[i] = recent[j] /\ Keep(data[i])
    /\ \A i \in DOMAIN data :
         Keep(data[i]) => \E j \in DOMAIN recent : recent[j] = data[i]
    /\ Len(recent) = Cardinality({i \in DOMAIN data : Keep(data[i])})
    /\ \A j, k \in DOMAIN recent :
         j < k => \E a, b \in DOMAIN data :
                     a < b /\ data[a] = recent[j] /\ data[b] = recent[k]

\* C4 as claimed: the load returns exactly the entries with
\* now - HOURS_TO_CHECK <= t < now.
C4_HalfOpenWindow ==
    [][(DigestCalled /\ digest'.loaded)
       => LET InWindow(e) == /\ EntryTime(e) >= now - HOURS_TO_CHECK * 3600
                             /\ EntryTime(e) < now
          IN  ExactlyThose(digest'.recent, file'.data, InWindow)]_vars

\* C4 amended: the load returns exactly the entries with
\* t >= now - HOURS_TO_CHECK; it applies no upper bound, and an empty
\* journal gives the empty sequence.
C4_FromWindowStart ==
    [][(DigestCalled /\ digest'.loaded)
       => LET NotBefore(e) == EntryTime(e) >= now - HOURS_TO_CHECK * 3600
          IN  /\ ExactlyThose(digest'.recent, file'.data, NotBefore)
              /\ file'.data = <<>> => digest'.recent = <<>>]_vars

\* A load that kept one entry and left out another.
C4_Witness ==
    /\ digest.loaded
    /\ pc = "request"
    /\ digest.recent # <<>>
    /\ Len(digest.recent) < Len(Journal)
    /\ \E i \in DOMAIN Journal : EntryTime(Journal[i]) < now - HOURS_TO_CHECK * 3600

\* C5: every message of a digest send is at most
\* DISCORD_MAX_MESSAGE_LENGTH long and every recent entry is listed in
\* exactly one message.
C5_MessageBudget ==
    digest.loaded =>
        /\ \A k \in DOMAIN digest.posts :
             digest.posts[k].length <= DISCORD_MAX_MESSAGE_LENGTH
        /\ digest.posts # <<>> =>
             \A j \in DOMAIN digest.recent :
                Cardinality({<<k, l>> \in
                                UNION {{k} \X DOMAIN digest.posts[k].addresses :
                                          k \in DOMAIN digest.posts} :
                             digest.posts[k].addresses[l]
                               = digest.recent[j].blacklisted_address}) = 1

\* The time process_transaction resolves for a transaction, NoTime when it
\* returns before or without resolving one.
ResolvedTime(info) ==
    IF info.body THEN get_transaction_date(info) ELSE NoTime

\* C6: when the for loop reaches a transaction whose resolved time is
\* before the window start, the session ends there: the position is
\* "done" with continue_processing false, the transaction and the rest of
\* the page are not scanned, no further request is made, and every
\* transaction processed before with a time inside the window was scanned.
C6_WindowCutoff ==
    [][/\ (/\ pc = "tx"
           /\ pending > 0
           /\ pc' # pc \/ pending' # pending
           /\ ResolvedTime(tx_info') \notin {NoTime, TimeError}
           /\ ResolvedTime(tx_info') < start_time)
          => /\ pc' = "done"
             /\ ~continue_processing'
             /\ scanned' = scanned
             /\ inWindow' \subseteq scanned'
             /\ tx_info'.hash \notin scanned' \ scanned
       /\ ~continue_processing
          => UNCHANGED <<pc, scanned, requests, pending, file>>
       /\ ~continue_processing'
          => /\ pc' = "done"
             /\ ResolvedTime(tx_info') \notin {NoTime, TimeError}
             /\ ResolvedTime(tx_info') < start_time]_vars

\* The scenario: two transactions scanned from the first page, then the
\* second page's first transaction is thirty hours old and the session is
\* done with a transaction of that page left.
C6_Witness ==
    /\ pc = "done"
    /\ ~continue_processing
    /\ requests = 2
    /\ pending > 0
    /\ respMarker # NoMarker
    /\ scanned = {"h1", "h2"}
    /\ inWindow = scanned
    /\ tx_info = TxThirtyHours

\* The text holds one of the two literals.
HasLiteral(text) ==
    \E i \in 1..(Len(text) - 8) :
        SubSeq(text, i, i + 8) \in {KwBlacklist, Kwblacklist}

\* The encodings that bytes.fromhex and UTF-8 decoding accept.
Decodable(damage) == damage \in {"none", "lowerhex", "twobyte"}

\* C7: a memo matches exactly when its MemoData decodes and the decoded
\* text contains "Blacklist" or "blacklist".
C7_MatchExactlyLiterals ==
    scanOut \in {"match", "nomatch"} =>
        (scanOut = "match" <=> (Decodable(memoDamage) /\ HasLiteral(memoText)))

\* Scans of "BLACKLIST" alone (no match), of "blacklisting" (match) and of
\* an undecodable encoding of a matching text (no match) have been made.
C7_Witness ==
    \/ scanOut = "nomatch" /\ memoText = TextUpper /\ memoDamage = "none"
    \/ scanOut = "match" /\ memoText = TextBlacklisting /\ memoDamage = "none"
    \/ scanOut = "nomatch" /\ memoText = TextTask /\ memoDamage = "badutf8"

TextTaskLower == Str(<<"t","a","s","k"," ","i","d",":"," ",
                       "b","l","a","c","k","l","i","s","t">>)

\* C8 as claimed: "Task ID: Blacklist #42" matches, "task id: blacklist"
\* does not match, a text containing "blacklisting" matches.
C8_Examples ==
    (scanOut \in {"match", "nomatch"} /\ memoDamage = "none") =>
        /\ memoText = TextTask => scanOut = "match"
        /\ memoText = TextTaskLower => scanOut = "nomatch"
        /\ Contains(memoText, TextBlacklisting) => scanOut = "match"

\* C8 amended: "Task ID: Blacklist #42" matches, "task id: blacklist"
\* matches too (it contains the literal "blacklist"), a text containing
\* "blacklisting" matches.
C8_ExamplesAllMatch ==
    (scanOut \in {"match", "nomatch"} /\ memoDamage = "none") =>
        /\ memoText = TextTask => scanOut = "match"
        /\ memoText = TextTaskLower => scanOut = "match"
        /\ Contains(memoText, TextBlacklisting) => scanOut = "match"

\* The scan of "task id: blacklist" has been made.
C8_Witness ==
    /\ scanOut = "match"
    /\ memoText = TextTaskLower
    /\ memoDamage = "none"

\* C9 as claimed: in a transaction with a resolved destination and two or
\* more matching memos, each matching memo adds a journal entry.
C9_EntryPerMatchingMemo ==
    [][(/\ AtMatchingMemo
        /\ Resolved(DestinationOf(tx_info))
        /\ Cardinality(MatchingMemos(tx_info)) >= 2
        /\ lastSave' # "error")
       => /\ file'.state = "ok"
          /\ Len(file'.data) = Len(file.data) + 1]_vars

\* C9 amended: such a transaction never has more than one journal entry:
\* once one of its memos has been saved, or found saved already, every
\* later matching memo of the transaction is refused as a duplicate and
\* the journal stays as it is.
C9_OneEntryPerTransaction ==
    [][/\ (/\ AtMatchingMemo
           /\ Resolved(DestinationOf(tx_info))
           /\ lastSave \in {"saved", "duplicate"})
          => /\ lastSave' = "duplicate"
             /\ file' = file
       /\ pc' = "memo"
          => CountIn(file'.data, DestinationOf(tx_info'), tx_info'.hash) <= 1]_vars

\* A transaction with two matching memos has been processed: the journal
\* holds the one entry of its first matching memo, the second was refused.
C9_Witness ==
    /\ pc = "memo"
    /\ mi > Len(tx_info.Memos)
    /\ Cardinality(MatchingMemos(tx_info)) >= 2
    /\ lastSave = "duplicate"
    /\ Len(Journal) = 1
    /\ Journal[1].transaction_hash = tx_info.hash
    /\ Journal[1].memo = hex_to_str(tx_info.Memos[1].MemoData)

\* C10: processing a transaction without a Destination leaves the journal
\* file as it is, whatever its memos hold.
C10_UnknownDestination ==
    [][(\/ pc = "memo" /\ tx_info.Destination = NoField
        \/ pc' = "memo" /\ tx_info'.Destination = NoField)
       => file' = file]_vars

\* The matching memo of a transaction without a Destination has been
\* scanned, with entries of other transactions in the journal.
C10_Witness ==
    /\ pc = "memo"
    /\ tx_info.Destination = NoField
    /\ mi = 2
    /\ MatchingMemos(tx_info) = {1}
    /\ Len(Journal) >= 1


-----------------------------------------------------------------------------
\* C11: a send_discord_summary call that loads the journal and finds no
\* entry inside the window posts, in the one-shot mode, exactly one message,
\* the "no new blacklisted addresses" text, and returns True exactly when
\* that post answered 204 (the process then exits 0, otherwise 1); in the
\* continuous mode it posts nothing and returns True (the while loop then
\* takes the send as done at the current time).
C11_EmptyDigest ==
    [][(DigestCalled /\ digest'.loaded /\ digest'.recent = <<>>)
          => IF inActions
             THEN /\ digest'.posts = <<EmptyMessage>>
                  /\ Len(digest'.status) = 1
                  /\ digest'.ok <=> digest'.status[1] = "204"
                  /\ pc' = IF digest'.status[1] = "204" THEN "exit0" ELSE "exit1"
             ELSE /\ digest'.posts = <<>>
                  /\ digest'.status = <<>>
                  /\ digest'.ok
                  /\ pc = "loop" => last_discord_update' = now]_vars

\* The scenario: the continuous mode, a journal whose entries are all older
\* than the window; the while loop's send loaded it, found nothing recent,
\* posted nothing and returned True.
C11_Witness ==
    /\ ~inActions
    /\ pc = "request"
    /\ Journal # <<>>
    /\ digest.loaded
    /\ digest.recent = <<>>
    /\ digest.posts = <<>>
    /\ digest.ok
    /\ last_discord_update = now

-----------------------------------------------------------------------------
\* C12: an entry of the journal file stays in it, with the same four field
\* values, in every later state: every step keeps every entry.
C12_AppendOnly ==
    [][\A i \in DOMAIN file.data :
          \E j \in DOMAIN file'.data : file'.data[j] = file.data[i]]_vars

-----------------------------------------------------------------------------
\* A page request that failed: the while loop is back at its top or stopped.
FailedFetch == pc = "request" /\ pc' \in {"loop", "halted"}

\* C13: every failed page request, raised or answered unsuccessfully,
\* counts: below three in a row the counter goes up by one; at three the
\* nodes are probed again and the counter is 0 when one answers, the
\* session halted when none does.
C13_EveryFailureCounts ==
    [][FailedFetch
          => IF consecutive_errors + 1 >= ErrorThreshold
             THEN /\ conn' # NoConn
                  /\ IF conn'.client # 0
                     THEN pc' = "loop" /\ consecutive_errors' = 0
                     ELSE pc' = "halted"
             ELSE /\ pc' = "loop"
                  /\ consecutive_errors' = consecutive_errors + 1]_vars

\* C14: every session eventually ends: the process reaches a position where
\* monitor_transactions has returned (or the one-shot mode has exited).
C14_SessionEnds == <>(pc \in {"done", "halted", "fatal", "exit0", "exit1"})

-----------------------------------------------------------------------------
\* An exception inside the for loop over the page reached the except clause.
ProcessingError ==
    pc \in {"tx", "memo"} /\ pc' \in {"loop", "halted"}
    /\ consecutive_errors' # consecutive_errors

\* C15: the first request of a session carries no marker and every request
\* carries the current marker; at the end of a page that was processed
\* without meeting a transaction older than the window the marker becomes
\* the one the response returned and the loop goes on, or the session is
\* done when none was returned; a failed request or an exception while the
\* page is processed leaves the marker as it was, equal to the one last
\* sent; nothing else changes the marker inside the loop.
C15_CursorProtocol ==
    [][/\ (pc = "request" /\ requests' # requests)
          => /\ sent' = marker
             /\ requests = 0 => sent' = NoMarker
       /\ (pc = "tx" /\ pending = 0 /\ continue_processing)
          => IF respMarker # NoMarker
             THEN pc' = "loop" /\ marker' = respMarker
             ELSE pc' = "done" /\ marker' = marker
       /\ (FailedFetch \/ ProcessingError)
          => marker' = marker /\ marker' = sent'
       /\ pc = "loop" => (marker' = marker /\ sent' = sent)
       /\ (marker' # marker /\ pc # "monitor")
          => pc = "tx" /\ pending = 0 /\ marker' = respMarker]_vars

\* The scenario: the first page came back with a marker, the second request
\* carried it and failed, and the loop is back at its top with the marker
\* unchanged.
C15_Witness ==
    /\ pc = "loop"
    /\ requests = 2
    /\ respMarker = "m1"
    /\ sent = "m1"
    /\ marker = "m1"
    /\ consecutive_errors = 1

-----------------------------------------------------------------------------
\* One pass of the top of the while loop.
LoopRound == pc = "loop" /\ pc' = "request"

\* C16: the first pass of the while loop calls send_discord_summary; after
\* a call that returned True at time t no pass before t + 3600 s calls it;
\* after a call that returned False at time t a pass calls it exactly when
\* the clock is at or past t + 300 s.
C16_DigestTiming ==
    [][LoopRound
          => /\ attempt = NoAttempt
                => (attempt' # NoAttempt /\ attempt'.t = now /\ digest'.called)
             /\ (attempt # NoAttempt /\ attempt.ok
                   /\ now < attempt.t + DISCORD_UPDATE_INTERVAL)
                => (~digest'.called /\ attempt' = attempt)
             /\ (attempt # NoAttempt /\ ~attempt.ok)
                => IF now >= attempt.t + DISCORD_RETRY_INTERVAL
                   THEN digest'.called /\ attempt'.t = now
                   ELSE ~digest'.called /\ attempt' = attempt]_vars

\* The scenario: the send of the first pass failed at T0, a pass at T0 did
\* not send, and the pass at T0 + 300 s sent again.
C16_Witness ==
    /\ pc = "request"
    /\ requests >= 1
    /\ now = T0 + DISCORD_RETRY_INTERVAL
    /\ attempt.t = now
    /\ digest.called

-----------------------------------------------------------------------------
\* C17: a malformed journal file counts as an empty journal: an append over
\* it leaves a journal of exactly the new entry, and a send over it loads
\* an empty list, so that it behaves as over an empty journal (one "no new
\* addresses" message in the one-shot mode, no message and True otherwise).
C17_MalformedAsEmpty ==
    [][/\ (pc = "memo" /\ file.state = "malformed" /\ lastSave' = "saved")
          => /\ file'.state = "ok"
             /\ Len(file'.data) = 1
             /\ file'.data[1].transaction_hash = tx_info.hash
       /\ (DigestCalled /\ webhook /\ file.state = "malformed")
          => /\ digest'.loaded
             /\ digest'.recent = <<>>
             /\ IF inActions
                THEN digest'.posts = <<EmptyMessage>>
                ELSE digest'.posts = <<>> /\ digest'.ok]_vars

\* C18: a failure while the journal file is written leaves
\* save_blacklisted_address as an exception: the memo loop is left for the
\* except clause of the while loop.
C18_WriteFailurePropagates ==
    [][(pc = "memo" /\ lastSave' = "error")
          => (pc' \in {"loop", "halted"}
              /\ consecutive_errors' # consecutive_errors)]_vars

-----------------------------------------------------------------------------
\* C19: get_working_client tries the nodes in the order of XRPL_NODES and
\* returns the first whose test request is answered successfully, trying
\* none after it; a node that raises or answers unsuccessfully is passed
\* over; when no node answers it raises, and at the start of a session the
\* session is then over with no page requested and the journal file
\* untouched.
C19_FirstWorkingNode ==
    [][/\ conn' # NoConn
          => LET o  == conn'.outcomes
                 ok == {i \in DOMAIN o : o[i] = "ok"}
             IN  /\ DOMAIN o = DOMAIN XRPL_NODES
                 /\ IF ok = {}
                    THEN conn'.client = 0 /\ conn'.probed = Len(XRPL_NODES)
                    ELSE /\ conn'.client \in ok
                         /\ \A i \in ok : conn'.client <= i
                         /\ conn'.probed = conn'.client
       /\ (pc = "monitor" /\ conn'.client = 0)
          => /\ pc' = "fatal"
             /\ ~connected'
             /\ requests' = 0
             /\ file' = file
       /\ (pc = "monitor" /\ conn'.client # 0) => (pc' = "loop" /\ connected')
       /\ pc = "fatal" => UNCHANGED vars]_vars

\* The scenario: the first node answered unsuccessfully, the second
\* answered and is the client; the third, which would have answered too,
\* was not tried.
C19_Witness ==
    /\ pc = "loop"
    /\ connected
    /\ conn.outcomes = <<"unsuccessful", "ok", "ok">>
    /\ conn.client = 2
    /\ conn.probed = 2

-----------------------------------------------------------------------------
\* C20: an entry that a step adds to the journal is added at a memo of the
\* transaction the for loop is at: that transaction was received in this
\* session, its time resolved and is not before start_time, it has a
\* Destination, the entry carries that destination and the transaction's
\* hash, and the entry's memo is the decoded text of one of its matching
\* memos.  Every entry of the journal has the hash of a transaction whose
\* time resolves to one not before start_time.
C20_Provenance ==
    [][/\ \A j \in DOMAIN file'.data :
            (file' # file /\ file'.data[j] \notin Range(file.data))
            => LET e == file'.data[j]
               IN  /\ pc = "memo"
                   /\ tx_info.hash \in inWindow
                   /\ ResolvedTime(tx_info) \notin {NoTime, TimeError}
                   /\ ResolvedTime(tx_info) >= start_time
                   /\ tx_info.Destination # NoField
                   /\ e.blacklisted_address = tx_info.Destination
                   /\ e.transaction_hash = tx_info.hash
                   /\ \E k \in MatchingMemos(tx_info) :
                        e.memo = hex_to_str(tx_info.Memos[k].MemoData)
       /\ (file' # file \/ start_time' # start_time)
          => \A j \in DOMAIN file'.data :
               \E tx \in TxPool :
                  /\ tx.hash = file'.data[j].transaction_hash
                  /\ ResolvedTime(tx) \notin {NoTime, TimeError}
                  /\ ResolvedTime(tx) >= start_time']_vars

\* The scenario: the transaction stamped exactly at the window start has
\* just been journaled under its destination and hash.
C20_Witness ==
    /\ pc = "memo"
    /\ lastSave = "saved"
    /\ tx_info = TxWindowStart
    /\ start_time = ResolvedTime(TxWindowStart)
    /\ \E i \in DOMAIN Journal :
         /\ Journal[i].transaction_hash = TxWindowStart.hash
         /\ Journal[i].blacklisted_address = TxWindowStart.Destination

====
